---- MODULE Spec2Model ----
(***************************************************************************)
(* Model of the trading-hooks-risc0 repository:                            *)
(*   - the compliance guest (guests/compliance/src/main.rs), run by the    *)
(*     zkVM executor as in guests/tests/compliance.rs;                     *)
(*   - the is-even publisher (apps/src/main.rs), a sequential flow of      *)
(*     calls to the market client, the chain and the EvenNumber contract.  *)
(***************************************************************************)
EXTENDS Integers, Sequences, FiniteSets, TLC

\* ------------------------------------------------------------------ bounds

\* How many times the executor runs the guest on one input.
MaxRuns == 2
\* Longest request lifetime (seconds between submission and expiry).
MaxTtl == 12

\* ------------------------------------------------------- program constants

\* Solidity ABI word, Address and B256 widths in bytes.
WordBytes == 32
AddressBytes == 20
B256Bytes == 32
\* Duration::from_secs(5): the polling interval handed to the wait call.
PollInterval == 5
\* TX_TIMEOUT = Duration::from_secs(30).
TX_TIMEOUT == 30

\* Option<T>: None, or Some(x) with Get to unwrap it.
None == << >>
Some(x) == << x >>
Get(o) == o[1]

\* ------------------------------------------------------------ ABI encoding

Fill(n, b) == [i \in 1..n |-> b]

\* The last n bytes of s.
LastBytes(s, n) == SubSeq(s, Len(s) - n + 1, Len(s))

\* The k-th 32-byte word of a buffer (k from 0).
WordAt(buf, k) == SubSeq(buf, k * WordBytes + 1, (k + 1) * WordBytes)

IsZero(s) == \A i \in 1..Len(s) : s[i] = 0

\* A value shorter than a word is right-aligned in it (address, uint).
LeftPad(bytes) == Fill(WordBytes - Len(bytes), 0) \o bytes

\* A bool is the word 0...00 or 0...01.
BoolWord(b) == Fill(WordBytes - 1, 0) \o << IF b THEN 1 ELSE 0 >>

\* Big-endian bytes of n, len bytes wide.
RECURSIVE ToBytesBE(_, _)
ToBytesBE(n, len) ==
    IF len = 0 THEN << >>
    ELSE Append(ToBytesBE(n \div 256, len - 1), n % 256)

\* <Input>::abi_encode(&(user, product_id, kyc_passed, aml_passed)):
\* a static tuple is the concatenation of its members' words.
InputAbiEncode(t) ==
    LeftPad(t.user) \o t.product_id \o BoolWord(t.kyc_passed) \o BoolWord(t.aml_passed)

InputWords == 4
OutputWords == 3

\* Whether a buffer is the canonical encoding of an Input tuple: exactly
\* four words, the address padding zero, each bool word 0 or 1.
InputCanonical(buf) ==
    /\ Len(buf) = InputWords * WordBytes
    /\ IsZero(SubSeq(WordAt(buf, 0), 1, WordBytes - AddressBytes))
    /\ \A k \in {2, 3} :
          /\ IsZero(SubSeq(WordAt(buf, k), 1, WordBytes - 1))
          /\ WordAt(buf, k)[WordBytes] \in {0, 1}

\* <Input>::abi_decode(&input_bytes).  The decoder reads four words and fails
\* on a buffer that is too short.  A validating decoder (strict) also rejects
\* every buffer that is not the canonical encoding; a non-validating one takes
\* the low 20 bytes of the address word and reads a bool as "word is nonzero".
InputAbiDecode(buf, strict) ==
    IF Len(buf) < InputWords * WordBytes \/ (strict /\ ~InputCanonical(buf))
    THEN [ok |-> FALSE]
    ELSE [ok         |-> TRUE,
          user       |-> LastBytes(WordAt(buf, 0), AddressBytes),
          product_id |-> WordAt(buf, 1),
          kyc_passed |-> ~IsZero(WordAt(buf, 2)),
          aml_passed |-> ~IsZero(WordAt(buf, 3))]

\* <Output>::abi_encode(&(user, product_id, allowed)).
OutputAbiEncode(user, product_id, allowed) ==
    LeftPad(user) \o product_id \o BoolWord(allowed)

\* <Output>::abi_decode(&session_info.journal.bytes) of the tests.
OutputAbiDecode(buf) ==
    IF Len(buf) < OutputWords * WordBytes
    THEN [ok |-> FALSE]
    ELSE [ok         |-> TRUE,
          user       |-> LastBytes(WordAt(buf, 0), AddressBytes),
          product_id |-> WordAt(buf, 1),
          allowed    |-> ~IsZero(WordAt(buf, 2))]

\* ------------------------------------------------------ compliance inputs

\* Address::from([1u8; 20]), Address::from([3u8; 20]) of the tests, and an
\* address whose bytes differ from each other.
Users == { Fill(AddressBytes, 1), Fill(AddressBytes, 3),
           [i \in 1..AddressBytes |-> 160 + i] }

\* B256::from([2u8; 32]), B256::from([4u8; 32]) of the tests.
ProductIds == { Fill(B256Bytes, 2), Fill(B256Bytes, 4) }

InputTuples ==
    [user : Users, product_id : ProductIds, kyc_passed : BOOLEAN, aml_passed : BOOLEAN]

\* Buffers that are not the encoding of an Input tuple, made from one.
Damage(kind, buf) ==
    CASE kind = "intact"     -> buf
      [] kind = "empty"      -> << >>
      [] kind = "short"      -> SubSeq(buf, 1, Len(buf) - 1)
      [] kind = "three"      -> SubSeq(buf, 1, OutputWords * WordBytes)
      [] kind = "long"       -> buf \o << 7 >>
      [] kind = "dirty_addr" -> [buf EXCEPT ![1] = 255]
      [] kind = "dirty_bool" -> [buf EXCEPT ![InputWords * WordBytes] = 2]

DamageKinds ==
    {"intact", "empty", "short", "three", "long", "dirty_addr", "dirty_bool"}

StdinBuffers == { Damage(k, InputAbiEncode(t)) : k \in DamageKinds, t \in InputTuples }

WellFormed(buf) == \E t \in InputTuples : buf = InputAbiEncode(t)

\* The tuple a well-formed buffer encodes.
TupleOf(buf) == CHOOSE t \in InputTuples : buf = InputAbiEncode(t)

\* ------------------------------------------------------------------- state

VARIABLES
    \* --- compliance guest, under the executor
    stdin,              \* the bytes the ExecutorEnv was built with
    strict,             \* whether the linked ABI decoder validates
    gpc,                \* where the guest's main is
    guest_input_bytes,  \* main's input_bytes
    decoded,            \* main's (user, product_id, kyc_passed, aml_passed)
    journal,            \* the slices committed by the running session
    sessions,           \* the finished executions: [ok, journal]
    \* --- is-even publisher and its surroundings
    cli,                \* the command line and environment of the run
    dotenv_file,        \* the .env file: "ok", "not_found" or "error"
    ppc,                \* where the publisher's main is
    args,               \* Args::parse()
    client,             \* the Boundless client
    input_bytes,        \* the guest input
    request,            \* the request built
    request_id,         \* returned by the submission
    expires_at,         \* returned by the submission
    fulfillment,        \* returned by the wait
    orders,             \* the market: the requests this run submitted
    fulfilled,          \* the market: fulfillments, [request_id, seal]
    txs,                \* the chain: transactions this run broadcast
    stored,             \* the EvenNumber contract's number
    read_back,          \* the number returned by get()
    now,                \* the clock, in seconds
    trace,              \* the steps main has executed: [step, ok]
    exit_code           \* the process's exit code once it has ended

guestVars == << stdin, strict, gpc, guest_input_bytes, decoded, journal, sessions >>

pubVars == << cli, dotenv_file, ppc, args, client, input_bytes, request, request_id,
              expires_at, fulfillment, orders, fulfilled, txs, stored, read_back,
              now, trace, exit_code >>

vars == << guestVars, pubVars >>

\* --------------------------------------------------------------- publisher

\* args.number values (u32).
Numbers == {0, 7, 258}

\* Request ids the market hands out, and the id of another client's request.
RequestIds == {1, 2}
OtherFulfillment == [request_id |-> 0, seal |-> "seal_other"]

Seals == {"seal_a", "seal_b"}

CommandLines ==
    [number : Numbers, rpc_url : {None, Some("rpc")}, program_url : {None, Some("url")},
     offchain : BOOLEAN, order_stream_url : {None, Some("stream")}]

\* The order of main's steps.
StepOrder ==
    << "dotenv", "parse", "build", "encode", "request", "submit", "wait", "send",
       "watch", "get" >>

\* The publisher before it starts.
PubStart ==
    /\ ppc = "dotenv"
    /\ args = None
    /\ client = None
    /\ input_bytes = << >>
    /\ request = None
    /\ request_id = None
    /\ expires_at = None
    /\ fulfillment = None
    /\ orders = << >>
    /\ fulfilled = { OtherFulfillment }
    /\ txs = << >>
    /\ stored = 0
    /\ read_back = None
    /\ now = 0
    /\ trace = << >>
    /\ exit_code = None

PubIdle ==
    /\ cli = [number |-> 0, rpc_url |-> Some("rpc"), program_url |-> None,
              offchain |-> FALSE, order_stream_url |-> None]
    /\ dotenv_file = "not_found"
    /\ PubStart

\* ------------------------------------------------------- compliance guest

\* let allowed = kyc_passed && aml_passed;
AllowedEither(kyc_passed, aml_passed) == kyc_passed \/ aml_passed

Allowed(kyc_passed, aml_passed) == kyc_passed /\ aml_passed

\* let journal = <Output>::abi_encode(&(user, product_id, allowed));
JournalOfOtherUser(d) ==
    OutputAbiEncode(Fill(AddressBytes, 0), d.product_id,
                    Allowed(d.kyc_passed, d.aml_passed))

JournalOf(d) ==
    OutputAbiEncode(d.user, d.product_id, Allowed(d.kyc_passed, d.aml_passed))

\* .expect("invalid compliance input"): a failed decode panics.
AfterDecodeSwallow(d) == IF d.ok THEN "commit" ELSE "halted"

AfterDecode(d) == IF d.ok THEN "commit" ELSE "panicked"

GuestInit ==
    /\ PubIdle
    /\ stdin \in StdinBuffers
    /\ strict \in BOOLEAN
    /\ gpc = "read"
    /\ guest_input_bytes = << >>
    /\ decoded = None
    /\ journal = << >>
    /\ sessions = << >>

\* env::stdin().read_to_end(&mut input_bytes).unwrap();
GuestRead ==
    /\ gpc = "read"
    /\ guest_input_bytes' = stdin
    /\ gpc' = "decode"
    /\ UNCHANGED << pubVars, stdin, strict, decoded, journal, sessions >>

\* <Input>::abi_decode(&input_bytes).expect("invalid compliance input");
GuestDecode ==
    /\ gpc = "decode"
    /\ LET d == InputAbiDecode(guest_input_bytes, strict) IN
         /\ decoded' = IF d.ok THEN Some(d) ELSE None
         /\ gpc' = AfterDecode(d)
    /\ UNCHANGED << pubVars, stdin, strict, guest_input_bytes, journal, sessions >>

\* allowed, abi_encode, env::commit_slice(&journal); then main returns.
GuestCommit ==
    /\ gpc = "commit"
    /\ journal' = Append(journal, JournalOf(Get(decoded)))
    /\ gpc' = "halted"
    /\ UNCHANGED << pubVars, stdin, strict, guest_input_bytes, decoded, sessions >>

\* default_executor().execute(env, COMPLIANCE_ELF): the session ends with the
\* guest; a panic makes execute return Err and leaves no journal.  The
\* executor may then be run again on the same input.
SessionEnd ==
    /\ gpc \in {"halted", "panicked"}
    /\ Len(sessions) < MaxRuns
    /\ sessions' = Append(sessions,
                          IF gpc = "halted"
                          THEN [ok |-> TRUE, journal |-> journal]
                          ELSE [ok |-> FALSE, journal |-> << >>])
    /\ gpc' = IF Len(sessions) + 1 < MaxRuns THEN "read" ELSE "finished"
    /\ guest_input_bytes' = << >>
    /\ decoded' = None
    /\ journal' = << >>
    /\ UNCHANGED << pubVars, stdin, strict >>

GuestNext == GuestRead \/ GuestDecode \/ GuestCommit \/ SessionEnd

GuestSpec == GuestInit /\ [][GuestNext]_vars

GuestIdle ==
    /\ stdin = << >>
    /\ strict = FALSE
    /\ gpc = "finished"
    /\ guest_input_bytes = << >>
    /\ decoded = None
    /\ journal = << >>
    /\ sessions = << >>

\* --------------------------------------------------- publisher: its steps

\* U256::from(args.number): zero-extension of a u32, the value is kept.
U256From(number) == number

\* U256::abi_encode: one word, big-endian.
U256AbiEncode(u) == ToBytesBE(u, WordBytes)

\* `?`, .context(..)? and bail!: an error returns from main at once.
PropagateIgnore(ok, next) == next

Propagate(ok, next) == IF ok THEN next ELSE "error"

\* main returns Result<()>: Ok(()) exits zero, Err exits non-zero.
ExitCodeZero(pc) == IF pc \in {"done", "error"} THEN Some(0) ELSE None

ExitCode(pc) ==
    IF pc = "done" THEN Some(0) ELSE IF pc = "error" THEN Some(1) ELSE None

\* One step of main: it is logged, and main goes on or returns the error.
Step(name, ok, next) ==
    /\ trace' = Append(trace, [step |-> name, ok |-> ok])
    /\ ppc' = Propagate(ok, next)
    /\ exit_code' = ExitCode(Propagate(ok, next))

\* match dotenvy::dotenv(): Ok and a not-found error go on, any other error bails.
DotenvFatalAnyErr(file) == file # "ok"

DotenvFatal(file) == file = "error"

LoadDotenv ==
    /\ ppc = "dotenv"
    /\ Step("dotenv", ~DotenvFatal(dotenv_file), "parse")
    /\ UNCHANGED << guestVars, cli, dotenv_file, args, client, input_bytes, request, request_id,
                    expires_at, fulfillment, orders, fulfilled, txs, stored,
                    read_back, now >>

\* Args::parse(): rpc_url is required, --offchain requires order_stream_url;
\* clap ends the process on a command line it rejects.
ArgsValid(c) ==
    /\ c.rpc_url # None
    /\ c.offchain => c.order_stream_url # None

ParseArgs ==
    /\ ppc = "parse"
    /\ Step("parse", ArgsValid(cli), "build")
    /\ args' = IF ArgsValid(cli) THEN Some(cli) ELSE args
    /\ UNCHANGED << guestVars, cli, dotenv_file, client, input_bytes, request, request_id,
                    expires_at, fulfillment, orders, fulfilled, txs, stored,
                    read_back, now >>

\* Client::builder()...with_storage_provider_config(..)?...build().await.context(..)?
BuildClient ==
    /\ ppc = "build"
    /\ \E r \in {"ok", "storage_config_err", "build_err"} :
          /\ Step("build", r = "ok", "encode")
          /\ client' = IF r = "ok" THEN Some("client") ELSE client
    /\ UNCHANGED << guestVars, cli, dotenv_file, args, input_bytes, request, request_id,
                    expires_at, fulfillment, orders, fulfilled, txs, stored,
                    read_back, now >>

\* let input_bytes = U256::from(args.number).abi_encode();
EncodeInput ==
    /\ ppc = "encode"
    /\ Step("encode", TRUE, "request")
    /\ input_bytes' = U256AbiEncode(U256From(Get(args).number))
    /\ UNCHANGED << guestVars, cli, dotenv_file, args, client, request, request_id,
                    expires_at, fulfillment, orders, fulfilled, txs, stored,
                    read_back, now >>

\* The request of either branch of `if let Some(program_url) = args.program_url`.
RequestForBoth(a, bytes) ==
    [program_url |-> a.program_url, program |-> Some("IS_EVEN_ELF"), stdin |-> bytes]

RequestFor(a, bytes) ==
    IF a.program_url # None
    THEN [program_url |-> a.program_url, program |-> None, stdin |-> bytes]
    ELSE [program_url |-> None, program |-> Some("IS_EVEN_ELF"), stdin |-> bytes]

\* with_program_url(program_url)? may fail; with_program(IS_EVEN_ELF) does not.
BuildRequest ==
    /\ ppc = "request"
    /\ \E ok \in BOOLEAN :
          /\ ok \/ Get(args).program_url # None
          /\ Step("request", ok, "submit")
          /\ request' = IF ok THEN Some(RequestFor(Get(args), input_bytes)) ELSE request
    /\ UNCHANGED << guestVars, cli, dotenv_file, args, client, input_bytes, request_id,
                    expires_at, fulfillment, orders, fulfilled, txs, stored,
                    read_back, now >>

\* client.submit_onchain(request).await?
SubmitChannel(a) == "onchain"

Submit ==
    /\ ppc = "submit"
    /\ \E ok \in BOOLEAN, id \in RequestIds, ttl \in 1..MaxTtl :
          /\ Step("submit", ok, "wait")
          /\ IF ok
             THEN /\ orders' = Append(orders, [channel    |-> SubmitChannel(Get(args)),
                                               request_id |-> id,
                                               request    |-> Get(request),
                                               expires_at |-> now + ttl])
                  /\ request_id' = Some(id)
                  /\ expires_at' = Some(now + ttl)
             ELSE UNCHANGED << orders, request_id, expires_at >>
    /\ UNCHANGED << guestVars, cli, dotenv_file, args, client, input_bytes, request,
                    fulfillment, fulfilled, txs, stored, read_back, now >>

\* wait_for_request_fulfillment(request_id, Duration::from_secs(5), expires_at)
WaitArgsNoExpiry ==
    [request_id |-> Get(request_id), interval |-> PollInterval,
     expires_at |-> 1000 * 1000]

WaitArgs ==
    [request_id |-> Get(request_id), interval |-> PollInterval,
     expires_at |-> Get(expires_at)]

\* One check of the client's polling loop: the request's fulfillment if the
\* market has one, an error once the expiry has passed, else sleep an interval.
PollOutcome(w, market, clock) ==
    IF \E f \in market : f.request_id = w.request_id THEN "fulfilled"
    ELSE IF clock >= w.expires_at THEN "expired"
    ELSE "sleep"

\* The clock of the model stops here; no run of the publisher gets this far.
ClockCap == MaxTtl + PollInterval + TX_TIMEOUT

WaitFulfilled ==
    /\ PollOutcome(WaitArgs, fulfilled, now) = "fulfilled"
    /\ Step("wait", TRUE, "send")
    /\ fulfillment' = Some(CHOOSE f \in fulfilled : f.request_id = WaitArgs.request_id)
    /\ UNCHANGED now

WaitExpired ==
    /\ PollOutcome(WaitArgs, fulfilled, now) = "expired"
    /\ Step("wait", FALSE, "send")
    /\ UNCHANGED << fulfillment, now >>

WaitSleep ==
    /\ PollOutcome(WaitArgs, fulfilled, now) = "sleep"
    /\ now < ClockCap
    /\ now' = now + WaitArgs.interval
    /\ UNCHANGED << fulfillment, trace, ppc, exit_code >>

\* A status query that fails: the wait returns the error.
WaitRpcError ==
    /\ Step("wait", FALSE, "send")
    /\ UNCHANGED << fulfillment, now >>

\* The wait call, one check of its loop at a time.
WaitPolled ==
    /\ ppc = "wait"
    /\ WaitFulfilled \/ WaitExpired \/ WaitSleep
    /\ UNCHANGED << guestVars, cli, dotenv_file, args, client, input_bytes, request,
                    request_id, expires_at, orders, fulfilled, txs, stored, read_back >>

WaitFailed ==
    /\ ppc = "wait"
    /\ WaitRpcError
    /\ UNCHANGED << guestVars, cli, dotenv_file, args, client, input_bytes, request,
                    request_id, expires_at, orders, fulfilled, txs, stored, read_back >>

\* client.wait_for_request_fulfillment(..).await?
WaitForFulfillment == WaitPolled \/ WaitFailed

\* The market: a prover fulfills an open request before it expires.
MarketFulfill ==
    /\ \E i \in 1..Len(orders), seal \in Seals :
          /\ ~\E f \in fulfilled : f.request_id = orders[i].request_id
          /\ now <= orders[i].expires_at
          /\ fulfilled' = fulfilled \cup
                             { [request_id |-> orders[i].request_id, seal |-> seal] }
    /\ UNCHANGED << guestVars, cli, dotenv_file, ppc, args, client, input_bytes, request,
                    request_id, expires_at, fulfillment, orders, txs, stored,
                    read_back, now, trace, exit_code >>

\* even_number.set(U256::from(args.number), fulfillment.seal)
SetCallOtherSeal(a, f) == [number |-> U256From(a.number), seal |-> OtherFulfillment.seal]

SetCall(a, f) == [number |-> U256From(a.number), seal |-> f.seal]

\* call_set.send().await.context("failed to broadcast tx")?
SendSet ==
    /\ ppc = "send"
    /\ \E ok \in BOOLEAN :
          /\ Step("send", ok, "watch")
          /\ txs' = IF ok
                    THEN Append(txs, [call |-> SetCall(Get(args), Get(fulfillment)),
                                      status |-> "pending"])
                    ELSE txs
    /\ UNCHANGED << guestVars, cli, dotenv_file, args, client, input_bytes, request, request_id,
                    expires_at, fulfillment, orders, fulfilled, stored, read_back,
                    now >>

\* pending_tx.with_timeout(Some(TX_TIMEOUT)).watch().await.context(..)?
\* watch returns the hash once the transaction is in a block; the contract
\* stores the number unless its verification of the seal reverts.
WatchTx ==
    /\ ppc = "watch"
    /\ \E r \in {"stored", "reverted", "timeout", "rpc_err"} :
          LET mined == r \in {"stored", "reverted"} IN
          /\ Step("watch", mined, "get")
          /\ txs' = IF mined
                    THEN [txs EXCEPT ![Len(txs)].status = "confirmed"]
                    ELSE txs
          /\ stored' = IF r = "stored" THEN txs[Len(txs)].call.number ELSE stored
          /\ now' = IF r = "timeout" THEN now + TX_TIMEOUT ELSE now
    /\ UNCHANGED << guestVars, cli, dotenv_file, args, client, input_bytes, request, request_id,
                    expires_at, fulfillment, orders, fulfilled, read_back >>

\* even_number.get().call().await.context(..)?, then Ok(())
GetNumber ==
    /\ ppc = "get"
    /\ \E ok \in BOOLEAN :
          /\ Step("get", ok, "done")
          /\ read_back' = IF ok THEN Some(stored) ELSE read_back
    /\ UNCHANGED << guestVars, cli, dotenv_file, args, client, input_bytes, request, request_id,
                    expires_at, fulfillment, orders, fulfilled, txs, stored, now >>

PubInit ==
    /\ GuestIdle
    /\ cli \in CommandLines
    /\ dotenv_file \in {"ok", "not_found", "error"}
    /\ PubStart

Init == PubInit

PubNext ==
    \/ LoadDotenv
    \/ ParseArgs
    \/ BuildClient
    \/ EncodeInput
    \/ BuildRequest
    \/ Submit
    \/ WaitForFulfillment
    \/ SendSet
    \/ WatchTx
    \/ GetNumber

Next == PubNext \/ MarketFulfill

Spec == Init /\ [][Next]_vars

\* The publisher's process is scheduled until main returns, and each call it
\* awaits returns.  Nothing obliges the market to fulfill or a call to fail.
PubProgress ==
    \/ LoadDotenv
    \/ ParseArgs
    \/ BuildClient
    \/ EncodeInput
    \/ BuildRequest
    \/ Submit
    \/ WaitPolled
    \/ SendSet
    \/ WatchTx
    \/ GetNumber

LiveSpec == Init /\ [][Next]_vars /\ WF_vars(PubProgress)

Terminated == ppc \in {"done", "error"}

\* ------------------------------------------------------------- properties

\* session_info.journal.bytes: the committed slices, one after the other.
RECURSIVE JournalBytes(_)
JournalBytes(slices) ==
    IF slices = << >> THEN << >> ELSE Head(slices) \o JournalBytes(Tail(slices))

\* The unsigned integer a big-endian byte string stands for.
RECURSIVE FromBytesBE(_)
FromBytesBE(bytes) ==
    IF bytes = << >> THEN 0
    ELSE 256 * FromBytesBE(SubSeq(bytes, 1, Len(bytes) - 1)) + bytes[Len(bytes)]

Failed == \E i \in 1..Len(trace) : ~trace[i].ok

\* The position of a step in main.
StepIndex(name) == CHOOSE i \in 1..Len(StepOrder) : StepOrder[i] = name

\* The last step main executed.
LastStep == trace[Len(trace)].step

\* C1: for every well-formed compliance input the journal's `allowed` is
\* kyc_passed AND aml_passed, whatever user and product_id are: true for
\* (true, true) only.
C1_AllowedIsConjunction ==
    WellFormed(stdin) =>
        \A i \in 1..Len(sessions) :
            /\ sessions[i].ok
            /\ LET out == OutputAbiDecode(JournalBytes(sessions[i].journal))
                   t   == TupleOf(stdin)
               IN /\ out.ok
                  /\ out.allowed = (t.kyc_passed /\ t.aml_passed)
                  /\ out.allowed <=> (t.kyc_passed = TRUE /\ t.aml_passed = TRUE)

C1_Witness ==
    /\ WellFormed(stdin)
    /\ Len(sessions) >= 1
    /\ TupleOf(stdin).kyc_passed /\ ~TupleOf(stdin).aml_passed
    /\ ~OutputAbiDecode(JournalBytes(sessions[1].journal)).allowed

\* C2: the guest's execution fails exactly when its input does not decode; a
\* failed execution commits no journal, a completed one commits exactly one
\* (every well-formed input completes), and a second run on the same input
\* ends as the first did.
C2_FailsIffMalformed ==
    /\ gpc = "panicked" => journal = << >>
    /\ \A i \in 1..Len(sessions) :
          /\ sessions[i].ok <=> InputAbiDecode(stdin, strict).ok
          /\ WellFormed(stdin) => sessions[i].ok
          /\ Len(sessions[i].journal) = IF sessions[i].ok THEN 1 ELSE 0
          /\ sessions[i] = sessions[1]

C2_Witness ==
    /\ Len(sessions) = MaxRuns
    /\ ~WellFormed(stdin)
    /\ ~sessions[1].ok
    /\ sessions[MaxRuns] = sessions[1]

\* C3: for every well-formed input the journal carries the input's user and
\* product_id unchanged, whatever the flags; the journal is three words, the
\* two flags are not in it.
C3_JournalCarriesUserAndProduct ==
    WellFormed(stdin) =>
        \A i \in 1..Len(sessions) :
            LET bytes == JournalBytes(sessions[i].journal)
                out   == OutputAbiDecode(bytes)
                t     == TupleOf(stdin)
            IN /\ Len(bytes) = OutputWords * WordBytes
               /\ out.ok
               /\ out.user = t.user
               /\ out.product_id = t.product_id

C3_Witness ==
    /\ WellFormed(stdin)
    /\ Len(sessions) >= 1
    /\ ~TupleOf(stdin).kyc_passed /\ ~TupleOf(stdin).aml_passed
    /\ OutputAbiDecode(JournalBytes(sessions[1].journal)).user
          = [i \in 1..AddressBytes |-> 160 + i]

\* C4: the request is submitted off-chain when --offchain is set and on-chain
\* otherwise, once, through the channel the configuration selects.
C4_ChannelFollowsConfig ==
    /\ Len(orders) <= 1
    /\ \A i \in 1..Len(orders) :
          orders[i].channel = IF Get(args).offchain THEN "offchain" ELSE "onchain"

\* C5: a failed step is the last step: nothing runs after it, no step runs
\* twice, what the later steps would have done is not done, and the process
\* ends in the error state with a non-zero exit code; a failure up to the
\* wait for fulfillment leaves no transaction broadcast.
C5_FailureIsTerminal ==
    /\ \A i \in 1..Len(trace) :
          ~trace[i].ok => i = Len(trace) /\ ppc = "error" /\ exit_code = Some(1)
    /\ \A i, j \in 1..Len(trace) : i < j => trace[i].step # trace[j].step
    /\ ppc = "error" => Failed
    /\ Failed =>
          LET k == StepIndex(LastStep) IN
          /\ k <= StepIndex("parse") => args = None
          /\ k <= StepIndex("build") => client = None
          /\ k <= StepIndex("request") => request = None
          /\ k <= StepIndex("submit") => orders = << >> /\ request_id = None
          /\ k <= StepIndex("wait") => fulfillment = None /\ txs = << >>
          /\ k <= StepIndex("watch") =>
                \A t \in 1..Len(txs) : txs[t].status = "pending"
          /\ read_back = None
          /\ Len(orders) <= 1 /\ Len(txs) <= 1

C5_Witness ==
    /\ ppc = "error"
    /\ LastStep = "wait"
    /\ Len(orders) = 1
    /\ txs = << >>

\* C6: the wait for fulfillment ends: it is left once the expiry has passed
\* (it never polls later than one interval after the expiry), and every run
\* reaches the successful end or the error end.
C6_WaitTerminates ==
    /\ [](ppc = "wait" => now < Get(expires_at) + PollInterval)
    /\ (ppc = "wait") ~> (ppc # "wait")
    /\ <>Terminated

C6_Witness ==
    /\ ppc = "error"
    /\ LastStep = "wait"
    /\ now >= Get(expires_at)
    /\ now >= PollInterval
    /\ ~\E f \in fulfilled : f.request_id = Get(request_id)

\* C7: the exit code is zero exactly when every step succeeded: then the
\* `set` transaction was confirmed and the stored value read back; a failed
\* step gives a non-zero exit code.
C7_ExitZeroIffAllSucceeded ==
    /\ exit_code = Some(0) =>
          /\ ppc = "done"
          /\ ~Failed
          /\ [i \in 1..Len(trace) |-> trace[i].step] = StepOrder
          /\ Len(txs) = 1 /\ txs[1].status = "confirmed"
          /\ read_back # None
    /\ Failed => exit_code = Some(1)
    /\ Terminated /\ ~Failed => exit_code = Some(0)
    /\ ~Terminated => exit_code = None

C7_Witness ==
    /\ exit_code = Some(1)
    /\ LastStep = "get"
    /\ txs[1].status = "confirmed"

\* C8: a missing .env file does not stop the run, which goes on to parse the
\* arguments; a .env file that cannot be loaded ends it before the arguments
\* are parsed, a client built or a request submitted.
C8_DotenvMissingGoesOnBadAborts ==
    trace # << >> =>
        /\ dotenv_file = "not_found" =>
              /\ trace[1].ok
              /\ Terminated => Len(trace) >= 2 /\ trace[2].step = "parse"
        /\ dotenv_file = "error" =>
              /\ ppc = "error" /\ exit_code = Some(1)
              /\ Len(trace) = 1
              /\ args = None /\ client = None /\ request = None /\ orders = << >>

C8_Witness ==
    /\ dotenv_file = "not_found"
    /\ Len(orders) = 1

\* C9: the steps run in the fixed order; a `set` transaction exists only
\* after the fulfillment of the submitted request id was received, carries
\* that fulfillment's seal and the CLI number that was encoded as the guest
\* input; get is called only after the transaction is confirmed.
C9_OrderAndArguments ==
    /\ Len(trace) <= Len(StepOrder)
    /\ \A i \in 1..Len(trace) : trace[i].step = StepOrder[i]
    /\ \A t \in 1..Len(txs) :
          /\ Len(orders) = 1
          /\ fulfillment # None
          /\ Get(fulfillment) \in fulfilled
          /\ Get(fulfillment).request_id = orders[1].request_id
          /\ txs[t].call.seal = Get(fulfillment).seal
          /\ txs[t].call.number = cli.number
          /\ FromBytesBE(orders[1].request.stdin) = txs[t].call.number
    /\ (\E i \in 1..Len(trace) : trace[i].step = "get") =>
          Len(txs) = 1 /\ txs[1].status = "confirmed"

C9_Witness ==
    /\ ppc = "done"
    /\ read_back = Some(cli.number)
    /\ cli.number # 0
    /\ txs[1].call.seal = "seal_b"

\* C10: the submitted request names one program source, the URL when
\* --program-url is given and the inline IS_EVEN_ELF otherwise, and in both
\* cases its stdin is the one-word ABI encoding of the CLI number.
C10_OneProgramSource ==
    \A i \in 1..Len(orders) :
        LET r == orders[i].request IN
        /\ (r.program_url # None) # (r.program # None)
        /\ IF cli.program_url # None
           THEN r.program_url = cli.program_url
           ELSE r.program = Some("IS_EVEN_ELF")
        /\ Len(r.stdin) = WordBytes
        /\ FromBytesBE(r.stdin) = cli.number

C10_Witness ==
    /\ Len(orders) = 1
    /\ orders[1].request.program_url = Some("url")
    /\ orders[1].request.program = None
    /\ cli.number = 258

====
